---- MODULE Spec2Model ----
(***************************************************************************)
(* The active-set solver of gtsam_unstable (ActiveSetSolver): the two      *)
(* query components computeStepSize and identifyLeavingConstraint, the     *)
(* outer active-set loop that drives them, and the construction of the     *)
(* dual graph (collectDualJacobians, buildDualGraph).                      *)
(*                                                                         *)
(* Numbers.  The code computes in double.  The model computes in exact     *)
(* rational arithmetic: a number is a record [n |-> numerator,             *)
(* d |-> denominator] in lowest terms with d > 0.  Rounding, infinities    *)
(* and NaN are outside the model.                                          *)
(***************************************************************************)
EXTENDS Integers, Sequences, FiniteSets

\* Largest number of inequality factors in a working set.
MaxFactors == 2
\* Largest number of ComputeDirection passes of the outer loop in one solve.
MaxIter == 3

VARIABLES
  workingSet,   \* InequalityFactorGraph: sequence of LinearInequality
  xk,           \* VectorValues: the current point
  p,            \* VectorValues: the search direction
  startAlpha,   \* the upper bound of the step
  lambdas,      \* VectorValues: dual key -> multiplier vector
  stepResult,   \* what the last computeStepSize call returned
  leaveResult,  \* what the last identifyLeavingConstraint call returned
  pc,           \* the state of the outer loop
  iter,         \* ComputeDirection passes so far
  lastOp,       \* the operation that produced this state
  constrainedKeys,          \* KeySet constrainedKeys_
  inequalityVariableIndex,  \* VariableIndex inequalityVariableIndex_
  jacobiansResult,  \* what the last collectDualJacobians call returned
  dualResult        \* what the last buildDualGraph call returned

\* The state the construction of the dual graph reads and writes.
dualVars == <<constrainedKeys, inequalityVariableIndex, jacobiansResult, dualResult>>

vars == <<workingSet, xk, p, startAlpha, lambdas, stepResult, leaveResult,
          pc, iter, lastOp, dualVars>>

-----------------------------------------------------------------------------
(* double, as exact rationals *)

Abs(i) == IF i < 0 THEN -i ELSE i

RECURSIVE GCD(_, _)
GCD(a, b) == IF b = 0 THEN a ELSE GCD(b, a % b)

\* the double with value n/d (d > 0)
Dbl(n, d) == LET g == GCD(Abs(n), d) IN [n |-> n \div g, d |-> d \div g]

FromInt(i) == [n |-> i, d |-> 1]

DAdd(x, y) == Dbl(x.n * y.d + y.n * x.d, x.d * y.d)
DSub(x, y) == Dbl(x.n * y.d - y.n * x.d, x.d * y.d)
DMul(x, y) == Dbl(x.n * y.n, x.d * y.d)
\* x / y for y > 0
DDiv(x, y) == Dbl(x.n * y.d, x.d * y.n)
DLess(x, y) == x.n * y.d < y.n * x.d
DLeq(x, y) == x.n * y.d <= y.n * x.d

Zero == FromInt(0)
One == FromInt(1)

-----------------------------------------------------------------------------
(* Factors and values *)

\* The primal keys.
Keys == {1, 2}

\* LinearInequality::dotProductRow(p): the factor's row times the values,
\* summed over the factor's keys.
DotProductRow(factor, v) ==
  DAdd(DMul(FromInt(factor.A[1]), v[1]), DMul(FromInt(factor.A[2]), v[2]))

\* VectorValues::at(key): the vector stored under key; a missing key throws
\* std::out_of_range, modelled as the empty vector <<>>.
At(values, key) == IF key \in DOMAIN values THEN values[key] ELSE <<>>

\* xk + alpha * p
Retract(x, alpha, d) == [k \in Keys |-> DAdd(x[k], DMul(alpha, d[k]))]

-----------------------------------------------------------------------------
(* computeStepSize *)

\* The factors of a working set are shared objects: the loops below carry
\* the working set along (acc.ws), so that what a call leaves behind in it
\* is part of what the call does.

\* StepLoopBody with the test of the active flag left out.
StepLoopBodyAllFactors(x, d, factorIx, acc) ==
  LET factor == acc.ws[factorIx + 1]
      b == FromInt(factor.b[1])
      aTp == DotProductRow(factor, d)
  IN  IF DLeq(aTp, Zero)
      THEN acc
      ELSE LET aTx == DotProductRow(factor, x)
               alpha == DDiv(DSub(b, aTx), aTp)
           IN  IF DLess(alpha, acc.alpha)
               THEN [acc EXCEPT !.alpha = alpha, !.ix = factorIx]
               ELSE acc

\* StepLoopBody with alpha <= minAlpha in place of alpha < minAlpha.
StepLoopBodyLeq(x, d, factorIx, acc) ==
  LET factor == acc.ws[factorIx + 1]
      b == FromInt(factor.b[1])
  IN  IF ~factor.active
      THEN LET aTp == DotProductRow(factor, d)
           IN  IF DLeq(aTp, Zero)
               THEN acc
               ELSE LET aTx == DotProductRow(factor, x)
                        alpha == DDiv(DSub(b, aTx), aTp)
                    IN  IF DLeq(alpha, acc.alpha)
                        THEN [acc EXCEPT !.alpha = alpha, !.ix = factorIx]
                        ELSE acc
      ELSE acc

\* StepLoopBody with alpha = (b + a'*xk) / (a'*p).
StepLoopBodySign(x, d, factorIx, acc) ==
  LET factor == acc.ws[factorIx + 1]
      b == FromInt(factor.b[1])
  IN  IF ~factor.active
      THEN LET aTp == DotProductRow(factor, d)
           IN  IF DLeq(aTp, Zero)
               THEN acc
               ELSE LET aTx == DotProductRow(factor, x)
                        alpha == DDiv(DAdd(b, aTx), aTp)
                    IN  IF DLess(alpha, acc.alpha)
                        THEN [acc EXCEPT !.alpha = alpha, !.ix = factorIx]
                        ELSE acc
      ELSE acc

\* StepLoopBody that records the factor but not its alpha.
StepLoopBodyKeepAlpha(x, d, factorIx, acc) ==
  LET factor == acc.ws[factorIx + 1]
      b == FromInt(factor.b[1])
  IN  IF ~factor.active
      THEN LET aTp == DotProductRow(factor, d)
           IN  IF DLeq(aTp, Zero)
               THEN acc
               ELSE LET aTx == DotProductRow(factor, x)
                        alpha == DDiv(DSub(b, aTx), aTp)
                    IN  IF DLess(alpha, acc.alpha)
                        THEN [acc EXCEPT !.ix = factorIx]
                        ELSE acc
      ELSE acc

\* StepLoopBody that activates the closest factor itself.
StepLoopBodyActivates(x, d, factorIx, acc) ==
  LET factor == acc.ws[factorIx + 1]
      b == FromInt(factor.b[1])
  IN  IF ~factor.active
      THEN LET aTp == DotProductRow(factor, d)
           IN  IF DLeq(aTp, Zero)
               THEN acc
               ELSE LET aTx == DotProductRow(factor, x)
                        alpha == DDiv(DSub(b, aTx), aTp)
                    IN  IF DLess(alpha, acc.alpha)
                        THEN [acc EXCEPT !.alpha = alpha, !.ix = factorIx,
                                         !.ws[factorIx + 1].active = TRUE]
                        ELSE acc
      ELSE acc

\* The body of the loop for factor number factorIx (0-based) on the running
\* acc = [ws |-> workingSet, alpha |-> minAlpha, ix |-> closestFactorIx].
StepLoopBody(x, d, factorIx, acc) ==
  LET factor == acc.ws[factorIx + 1]
      b == FromInt(factor.b[1])
  IN  IF ~factor.active
      THEN LET aTp == DotProductRow(factor, d)
           IN  IF DLeq(aTp, Zero)
               THEN acc
               ELSE LET aTx == DotProductRow(factor, x)
                        alpha == DDiv(DSub(b, aTx), aTp)
                    IN  IF DLess(alpha, acc.alpha)
                        THEN [acc EXCEPT !.alpha = alpha, !.ix = factorIx]
                        ELSE acc
      ELSE acc

\* The loop from factorIx to workingSet.size().
RECURSIVE StepLoop(_, _, _, _)
StepLoop(x, d, factorIx, acc) ==
  IF factorIx < Len(acc.ws)
  THEN StepLoop(x, d, factorIx + 1, StepLoopBody(x, d, factorIx, acc))
  ELSE acc

\* [alpha, ix]: the tuple returned; [ws]: the working set as the call leaves it.
computeStepSize(ws, x, d, sa) ==
  StepLoop(x, d, 0, [ws |-> ws, alpha |-> sa, ix |-> -1])

-----------------------------------------------------------------------------
(* identifyLeavingConstraint *)

\* LeaveLoopBody with lambda < maxLambda in place of lambda > maxLambda.
LeaveLoopBodyLess(lam, factorIx, acc) ==
  LET factor == acc.ws[factorIx + 1]
  IN  IF acc.threw
      THEN acc
      ELSE IF factor.active
      THEN LET v == At(lam, factor.dualKey)
           IN  IF v = <<>>
               THEN [acc EXCEPT !.threw = TRUE]
               ELSE LET lambda == FromInt(v[1])
                    IN  IF DLess(lambda, acc.max)
                        THEN [acc EXCEPT !.ix = factorIx, !.max = lambda]
                        ELSE acc
      ELSE acc

\* LeaveLoopBody that records the factor but not its lambda.
LeaveLoopBodyKeepMax(lam, factorIx, acc) ==
  LET factor == acc.ws[factorIx + 1]
  IN  IF acc.threw
      THEN acc
      ELSE IF factor.active
      THEN LET v == At(lam, factor.dualKey)
           IN  IF v = <<>>
               THEN [acc EXCEPT !.threw = TRUE]
               ELSE LET lambda == FromInt(v[1])
                    IN  IF DLess(acc.max, lambda)
                        THEN [acc EXCEPT !.ix = factorIx]
                        ELSE acc
      ELSE acc

\* The body of the loop for factor number factorIx (0-based) on the running
\* acc = [ws |-> workingSet, ix |-> worstFactorIx, max |-> maxLambda,
\*        threw |-> whether lambdas.at has thrown].
LeaveLoopBody(lam, factorIx, acc) ==
  LET factor == acc.ws[factorIx + 1]
  IN  IF acc.threw
      THEN acc
      ELSE IF factor.active
      THEN LET v == At(lam, factor.dualKey)
           IN  IF v = <<>>
               THEN [acc EXCEPT !.threw = TRUE]
               ELSE LET lambda == FromInt(v[1])
                    IN  IF DLess(acc.max, lambda)
                        THEN [acc EXCEPT !.ix = factorIx, !.max = lambda]
                        ELSE acc
      ELSE acc

RECURSIVE LeaveLoop(_, _, _)
LeaveLoop(lam, factorIx, acc) ==
  IF factorIx < Len(acc.ws)
  THEN LeaveLoop(lam, factorIx + 1, LeaveLoopBody(lam, factorIx, acc))
  ELSE acc

\* [ix]: the index returned; [threw]: lambdas.at threw instead; [ws]: the
\* working set as the call leaves it.
identifyLeavingConstraint(ws, lam) ==
  LET r == LeaveLoop(lam, 0, [ws |-> ws, ix |-> -1, max |-> Zero, threw |-> FALSE])
  IN  [ix |-> r.ix, threw |-> r.threw, ws |-> r.ws]

-----------------------------------------------------------------------------
(* The inputs of the model *)

\* The rows a factor may carry, one coefficient per key.
Rows == { [k \in Keys |-> r[k]] : r \in {<<1, 0>>, <<0, 1>>, <<1, 1>>, <<-1, 1>>} }

\* The bounds b a factor may carry (a vector of one entry).
Bounds == {<<0>>, <<1>>}

\* The dual key of the factor at 0-based position factorIx of a working set
\* of n factors: distinct per factor, and different from the position.
DualKeyOf(n, factorIx) == 10 + (n - 1 - factorIx)

\* The working sets of exactly n factors with the given rows and bounds.
WorkingSetsOver(rowSet, boundSet, n) ==
  { [i \in 1..n |-> [A |-> rows[i], b |-> bs[i], active |-> act[i],
                     dualKey |-> DualKeyOf(n, i - 1)]] :
      rows \in [1..n -> rowSet], bs \in [1..n -> boundSet],
      act \in [1..n -> BOOLEAN] }

WorkingSets == UNION { WorkingSetsOver(Rows, Bounds, n) : n \in 0..MaxFactors }

\* Working sets that differ in their active flags only.
FlagWorkingSets ==
  UNION { WorkingSetsOver({[k \in Keys |-> 1]}, {<<1>>}, n) : n \in 0..MaxFactors }

\* Points and directions with integer coordinates.
Points == [Keys -> {FromInt(c) : c \in {0, 1}}]
Directions == [Keys -> {FromInt(c) : c \in {-1, 0, 1}}]

StartAlphas == {Dbl(1, 2), One}

\* The multipliers a dual solve may produce.
LambdaValues == {<<-1>>, <<0>>, <<1>>, <<2>>}

ActiveDualKeys(ws) == {ws[i].dualKey : i \in {j \in 1..Len(ws) : ws[j].active}}
AllDualKeys(ws) == {ws[i].dualKey : i \in 1..Len(ws)}

\* The multiplier assignments for a working set: a multiplier for every
\* active factor, and for any of the inactive ones.
LambdasFor(ws) ==
  UNION { [dom -> LambdaValues] :
            dom \in {s \in SUBSET AllDualKeys(ws) : ActiveDualKeys(ws) \subseteq s} }

Origin == [k \in Keys |-> Zero]
NoLambdas == [k \in {} |-> <<0>>]
NoStep == [called |-> FALSE, alpha |-> Zero, ix |-> -1]
NoLeave == [called |-> FALSE, ix |-> -1, threw |-> FALSE]
NoJacobians == [called |-> FALSE, key |-> 0, terms |-> <<>>]
NoDualGraph == [called |-> FALSE, graph |-> <<>>, calls |-> <<>>]

\* No dual graph is under construction.
DualIdle ==
  /\ constrainedKeys = {}
  /\ inequalityVariableIndex = <<>>
  /\ jacobiansResult = NoJacobians
  /\ dualResult = NoDualGraph

-----------------------------------------------------------------------------
(* The query components, called on every input *)

\* Inputs for computeStepSize: any working set, xk, p and startAlpha.
StepInputs ==
  /\ workingSet \in WorkingSets
  /\ xk \in Points
  /\ p \in Directions
  /\ startAlpha \in StartAlphas
  /\ lambdas = NoLambdas

\* Inputs for identifyLeavingConstraint: any active flags and multipliers.
LeaveInputs ==
  /\ workingSet \in FlagWorkingSets
  /\ xk = Origin
  /\ p = Origin
  /\ startAlpha = One
  /\ lambdas \in LambdasFor(workingSet)

QueryInit ==
  /\ StepInputs \/ LeaveInputs
  /\ stepResult = NoStep
  /\ leaveResult = NoLeave
  /\ pc = "Query"
  /\ iter = 0
  /\ lastOp = "Init"
  /\ DualIdle

CallComputeStepSize ==
  /\ pc = "Query"
  /\ LET r == computeStepSize(workingSet, xk, p, startAlpha)
     IN  /\ stepResult' = [called |-> TRUE, alpha |-> r.alpha, ix |-> r.ix]
         /\ workingSet' = r.ws
  /\ UNCHANGED <<xk, p, startAlpha, lambdas, leaveResult, pc, iter,
                 lastOp, dualVars>>

\* The caller passes the solution of the dual system, which holds a
\* multiplier for every active factor.
CallIdentifyLeavingConstraint ==
  /\ pc = "Query"
  /\ ActiveDualKeys(workingSet) \subseteq DOMAIN lambdas
  /\ LET r == identifyLeavingConstraint(workingSet, lambdas)
     IN  /\ leaveResult' = [called |-> TRUE, ix |-> r.ix, threw |-> r.threw]
         /\ workingSet' = r.ws
  /\ UNCHANGED <<xk, p, startAlpha, lambdas, stepResult, pc, iter,
                 lastOp, dualVars>>

QueryNext ==
  \/ CallComputeStepSize
  \/ CallIdentifyLeavingConstraint

QuerySpec == QueryInit /\ [][QueryNext]_vars

-----------------------------------------------------------------------------
(* The outer loop of the active-set solver *)

\* a'x <= b
Feasible(factor, x) == DLeq(DotProductRow(factor, x), FromInt(factor.b[1]))
\* a'x = b
Tight(factor, x) == DotProductRow(factor, x) = FromInt(factor.b[1])

\* The solutions a subproblem solve may return.
Targets == [Keys -> {FromInt(c) : c \in {0, 1, 2}}]

Activate(ws, factorIx) == [ws EXCEPT ![factorIx + 1].active = TRUE]
Inactivate(ws, factorIx) == [ws EXCEPT ![factorIx + 1].active = FALSE]

\* The caller supplies a feasible point and a working set whose active
\* factors hold with equality at it.
Init ==
  /\ workingSet \in WorkingSets
  /\ xk \in Points
  /\ \A i \in 1..Len(workingSet) :
       /\ Feasible(workingSet[i], xk)
       /\ workingSet[i].active => Tight(workingSet[i], xk)
  /\ p = Origin
  /\ startAlpha = One
  /\ lambdas = NoLambdas
  /\ stepResult = NoStep
  /\ leaveResult = NoLeave
  /\ pc = "ComputeDirection"
  /\ iter = 0
  /\ lastOp = "Init"
  /\ DualIdle

\* ComputeDirection: a new pass starts, and what the last pass computed (the
\* multipliers, the results of the queries) is dropped.  The subproblem
\* (cost and the active inequalities as equalities) is solved for some point
\* xStar, and p = xStar - xk.  The cost is not modelled: xStar is any point
\* at which every active factor holds with equality.
ComputeDirection ==
  /\ pc = "ComputeDirection"
  /\ iter < MaxIter
  /\ \E xStar \in Targets \cup {xk} :
       /\ \A i \in 1..Len(workingSet) :
            workingSet[i].active => Tight(workingSet[i], xStar)
       /\ p' = [k \in Keys |-> DSub(xStar[k], xk[k])]
  /\ pc' = IF p' = Origin THEN "TestOptimality" ELSE "BoundStep"
  /\ iter' = iter + 1
  /\ lambdas' = NoLambdas
  /\ stepResult' = NoStep
  /\ leaveResult' = NoLeave
  /\ lastOp' = "ComputeDirection"
  /\ UNCHANGED <<workingSet, xk, startAlpha, dualVars>>

\* BoundStep: computeStepSize bounds the step; the full step keeps the
\* working set, any other step activates the factor returned.
BoundStep ==
  /\ pc = "BoundStep"
  /\ LET r == computeStepSize(workingSet, xk, p, startAlpha)
     IN  /\ stepResult' = [called |-> TRUE, alpha |-> r.alpha, ix |-> r.ix]
         /\ xk' = Retract(xk, r.alpha, p)
         /\ IF r.ix = -1 /\ r.alpha = One
            THEN workingSet' = r.ws /\ pc' = "ComputeDirection"
            ELSE IF r.ix \in 0..(Len(r.ws) - 1)
            THEN workingSet' = Activate(r.ws, r.ix) /\ pc' = "ComputeDirection"
            ELSE workingSet' = r.ws /\ pc' = "Error"
  /\ lastOp' = "BoundStep"
  /\ UNCHANGED <<p, startAlpha, lambdas, leaveResult, iter, dualVars>>

\* p = 0: the dual system is solved for the multipliers of the active
\* factors (any values, the cost not being modelled) and identifyLeavingConstraint picks the factor
\* to drop, or none.
TestOptimality ==
  /\ pc = "TestOptimality"
  /\ \E lam \in [ActiveDualKeys(workingSet) -> LambdaValues] :
       LET r == identifyLeavingConstraint(workingSet, lam)
       IN  /\ lambdas' = lam
           /\ leaveResult' = [called |-> TRUE, ix |-> r.ix, threw |-> r.threw]
           /\ IF r.threw
              THEN workingSet' = r.ws /\ pc' = "Error"
              ELSE IF r.ix = -1
              THEN workingSet' = r.ws /\ pc' = "Converged"
              ELSE workingSet' = Inactivate(r.ws, r.ix) /\ pc' = "ComputeDirection"
  /\ lastOp' = "TestOptimality"
  /\ UNCHANGED <<xk, p, startAlpha, stepResult, iter, dualVars>>

Next ==
  \/ ComputeDirection
  \/ BoundStep
  \/ TestOptimality

Spec == Init /\ [][Next]_vars

-----------------------------------------------------------------------------
(* The dual graph: collectDualJacobians, createDualFactor, buildDualGraph *)

\* The keys of a factor: those its row has a coefficient for.
FactorKeys(factor) == {k \in Keys : factor.A[k] # 0}

\* The primal keys of a problem: those of the inequality factors, and one
\* that only equality factors constrain.
PrimalKeys == Keys \cup {3}

\* VariableIndex(graph): for every key of some factor, the 0-based indices of
\* the factors that hold it, ascending.
VariableIndexOf(graph) ==
  [k \in UNION {FactorKeys(graph[i]) : i \in 1..Len(graph)} |->
     SelectSeq([i \in 1..Len(graph) |-> i - 1],
               LAMBDA factorIx : k \in FactorKeys(graph[factorIx + 1]))]

\* factor->getA(factor->find(key)): the block of the factor at key, a matrix
\* of one row (a sequence of rows).  key is a key of the factor.
GetA(factor, key) == <<<<factor.A[key]>>>>

\* Matrix::transpose() of a matrix with at least one row.
Transpose(m) == [j \in 1..Len(m[1]) |-> [i \in 1..Len(m) |-> m[i][j]]]

\* JacobiansLoopBody with the test of the active flag left out.
JacobiansLoopBodyAllFactors(key, graph, factorIx, Aterms) ==
  LET factor == graph[factorIx + 1]
      Ai == Transpose(GetA(factor, key))
  IN  Append(Aterms, <<factor.dualKey, Ai>>)

\* The body of BOOST_FOREACH(size_t factorIx, variableIndex[key]).
JacobiansLoopBody(key, graph, factorIx, Aterms) ==
  LET factor == graph[factorIx + 1]
  IN  IF ~factor.active
      THEN Aterms
      ELSE LET Ai == Transpose(GetA(factor, key))
           IN  Append(Aterms, <<factor.dualKey, Ai>>)

\* The loop over the factor indices (factorIxs) still to visit.
RECURSIVE JacobiansLoop(_, _, _, _)
JacobiansLoop(key, graph, factorIxs, Aterms) ==
  IF factorIxs = <<>>
  THEN Aterms
  ELSE JacobiansLoop(key, graph, Tail(factorIxs),
                     JacobiansLoopBody(key, graph, Head(factorIxs), Aterms))

collectDualJacobians(key, graph, variableIndex) ==
  IF key \in DOMAIN variableIndex
  THEN JacobiansLoop(key, graph, variableIndex[key], <<>>)
  ELSE <<>>

\* createDualFactor, which a subclass supplies: the dual factor of key, made
\* of the terms of the active inequality factors at key.  Its right-hand
\* side, which comes from the cost at delta, is not modelled.
createDualFactor(key, ws, delta) ==
  [key |-> key, terms |-> collectDualJacobians(key, ws, inequalityVariableIndex)]

\* JacobianFactor::empty()
Empty(dualFactor) == dualFactor.terms = <<>>

\* KeySet iterates in ascending key order.
Begin(keys) == CHOOSE k \in keys : \A j \in keys : k <= j

\* BuildLoopBody with the test of empty() left out.
BuildLoopBodyPushAll(key, ws, delta, acc) ==
  LET dualFactor == createDualFactor(key, ws, delta)
  IN  [graph |-> Append(acc.graph, dualFactor), calls |-> Append(acc.calls, key)]

\* The body of BOOST_FOREACH(Key key, constrainedKeys_) on the running
\* acc = [graph |-> dualGraph, calls |-> the keys createDualFactor was
\* called with, in the order of the calls].
BuildLoopBody(key, ws, delta, acc) ==
  LET dualFactor == createDualFactor(key, ws, delta)
  IN  [graph |-> IF ~Empty(dualFactor) THEN Append(acc.graph, dualFactor)
                 ELSE acc.graph,
       calls |-> Append(acc.calls, key)]

\* The loop over the keys still to visit.
RECURSIVE BuildLoop(_, _, _, _)
BuildLoop(keys, ws, delta, acc) ==
  IF keys = {}
  THEN acc
  ELSE BuildLoop(keys \ {Begin(keys)}, ws, delta,
                 BuildLoopBody(Begin(keys), ws, delta, acc))

buildDualGraph(ws, delta) ==
  BuildLoop(constrainedKeys, ws, delta, [graph |-> <<>>, calls |-> <<>>])

\* Inputs: any working set, its variable index, any set of constrained keys.
DualInit ==
  /\ workingSet \in UNION { WorkingSetsOver(Rows, {<<1>>}, n) : n \in 0..MaxFactors }
  /\ xk = Origin
  /\ p = Origin
  /\ startAlpha = One
  /\ lambdas = NoLambdas
  /\ stepResult = NoStep
  /\ leaveResult = NoLeave
  /\ pc = "Dual"
  /\ iter = 0
  /\ lastOp = "Init"
  /\ constrainedKeys \in SUBSET PrimalKeys
  /\ inequalityVariableIndex = VariableIndexOf(workingSet)
  /\ jacobiansResult = NoJacobians
  /\ dualResult = NoDualGraph

CallCollectDualJacobians ==
  /\ pc = "Dual"
  /\ \E key \in PrimalKeys :
       jacobiansResult' =
         [called |-> TRUE, key |-> key,
          terms |-> collectDualJacobians(key, workingSet, inequalityVariableIndex)]
  /\ UNCHANGED <<workingSet, xk, p, startAlpha, lambdas, stepResult, leaveResult,
                 pc, iter, lastOp, constrainedKeys, inequalityVariableIndex,
                 dualResult>>

CallBuildDualGraph ==
  /\ pc = "Dual"
  /\ LET r == buildDualGraph(workingSet, xk)
     IN  dualResult' = [called |-> TRUE, graph |-> r.graph, calls |-> r.calls]
  /\ UNCHANGED <<workingSet, xk, p, startAlpha, lambdas, stepResult, leaveResult,
                 pc, iter, lastOp, constrainedKeys, inequalityVariableIndex,
                 jacobiansResult>>

DualNext ==
  \/ CallCollectDualJacobians
  \/ CallBuildDualGraph

DualSpec == DualInit /\ [][DualNext]_vars

-----------------------------------------------------------------------------
(* What the claims speak of *)

\* The inactive factors (1-based positions) with a'*p > 0.
Candidates(ws, d) ==
  {i \in 1..Len(ws) : ~ws[i].active /\ DLess(Zero, DotProductRow(ws[i], d))}

\* alpha_i = (b_i - a_i.xk) / (a_i.p) of candidate i.
CandidateAlpha(ws, x, d, i) ==
  DDiv(DSub(FromInt(ws[i].b[1]), DotProductRow(ws[i], x)), DotProductRow(ws[i], d))

\* The candidates that reach their bound strictly before startAlpha.
Binding(ws, x, d, sa) ==
  {i \in Candidates(ws, d) : DLess(CandidateAlpha(ws, x, d, i), sa)}

\* The candidates whose alpha_i is the least of all candidates.
Closest(ws, x, d) ==
  {i \in Candidates(ws, d) :
     \A j \in Candidates(ws, d) :
       DLeq(CandidateAlpha(ws, x, d, i), CandidateAlpha(ws, x, d, j))}

\* The multiplier lambdas[dualKey][0] of the factor at 1-based position i.
Multiplier(ws, lam, i) == lam[ws[i].dualKey][1]

\* The active factors (1-based positions) with a multiplier > 0.
BadActive(ws, lam) ==
  {i \in 1..Len(ws) : ws[i].active /\ Multiplier(ws, lam, i) > 0}

\* The factors (1-based positions) a step turns from inactive to active, and
\* from active to inactive.
Activations(ws, wsNext) == {i \in 1..Len(ws) : ~ws[i].active /\ wsNext[i].active}
Deactivations(ws, wsNext) == {i \in 1..Len(ws) : ws[i].active /\ ~wsNext[i].active}

\* wsNext is ws but for active flags.
SameFactors(ws, wsNext) ==
  /\ Len(wsNext) = Len(ws)
  /\ \A i \in 1..Len(ws) : [wsNext[i] EXCEPT !.active = ws[i].active] = ws[i]

SetMin(S) == CHOOSE m \in S : \A n \in S : m <= n

-----------------------------------------------------------------------------
(* C1 *)

\* C1: computeStepSize returns alpha = min(startAlpha, min of
\* (b_i - a_i.xk)/(a_i.p) over the inactive factors i with a_i.p > 0), and as
\* index a factor attaining that minimum, or -1 when no such factor has a
\* candidate strictly below startAlpha.  Only the inactive factors with
\* a_i.p > 0 enter: active factors and inactive ones with a_i.p <= 0 do not.
C1_StepSizeIsMinimum ==
  stepResult.called =>
    LET C == Candidates(workingSet, p)
        alphas == {startAlpha} \cup {CandidateAlpha(workingSet, xk, p, i) : i \in C}
    IN  /\ stepResult.alpha \in alphas
        /\ \A a \in alphas : DLeq(stepResult.alpha, a)
        /\ IF Binding(workingSet, xk, p, startAlpha) # {}
           THEN /\ stepResult.ix + 1 \in C
                /\ CandidateAlpha(workingSet, xk, p, stepResult.ix + 1) = stepResult.alpha
           ELSE stepResult.ix = -1

\* A call that returned the second factor although the first one, which is
\* active, points along p and would give a smaller alpha.
C1_Witness ==
  /\ stepResult.called
  /\ Len(workingSet) = 2
  /\ stepResult.ix = 1
  /\ workingSet[1].active
  /\ DLess(Zero, DotProductRow(workingSet[1], p))
  /\ DLess(CandidateAlpha(workingSet, xk, p, 1), stepResult.alpha)

-----------------------------------------------------------------------------
(* C2 *)

\* C2: identifyLeavingConstraint returns the index of the active factor whose
\* multiplier is the maximum among the active factors with multiplier > 0,
\* the lowest index on a tie, and -1 when no active factor has a multiplier
\* > 0; the index of an inactive factor is never returned.
C2_LeavingIsWorstActive ==
  leaveResult.called =>
    LET B == BadActive(workingSet, lambdas)
        i == leaveResult.ix + 1
    IN  /\ ~leaveResult.threw
        /\ IF B = {}
           THEN leaveResult.ix = -1
           ELSE /\ i \in B
                /\ \A j \in B :
                     Multiplier(workingSet, lambdas, j) <= Multiplier(workingSet, lambdas, i)
                /\ \A j \in B :
                     Multiplier(workingSet, lambdas, j) = Multiplier(workingSet, lambdas, i)
                       => i <= j
        /\ leaveResult.ix # -1 => workingSet[i].active

\* A call that returned the second factor, the first being inactive with a
\* larger multiplier.
C2_Witness ==
  /\ leaveResult.called
  /\ Len(workingSet) = 2
  /\ leaveResult.ix = 1
  /\ ~workingSet[1].active
  /\ workingSet[1].dualKey \in DOMAIN lambdas
  /\ Multiplier(workingSet, lambdas, 1) > Multiplier(workingSet, lambdas, 2)

-----------------------------------------------------------------------------
(* C3 *)

\* C3: from a feasible initial point, through any sequence of outer
\* iterations whose accepted point is xk + alpha*p with alpha returned by
\* computeStepSize(workingSet, xk, p, 1), the accepted point satisfies
\* a.x <= b for every inequality factor, active and inactive alike.
C3_FeasibilityInvariant ==
  \A i \in 1..Len(workingSet) : Feasible(workingSet[i], xk)

\* A bounded step was accepted at a fractional alpha in a later pass, along
\* a factor that was active already.
C3_Witness ==
  /\ lastOp = "BoundStep"
  /\ iter >= 2
  /\ stepResult.ix # -1
  /\ stepResult.alpha.d # 1
  /\ \E i \in 1..Len(workingSet) :
       /\ i # stepResult.ix + 1
       /\ workingSet[i].active

-----------------------------------------------------------------------------
(* C4 *)

\* C4: KKT termination.  The loop reaches Converged exactly when
\* identifyLeavingConstraint returns -1, and then every active factor has a
\* multiplier <= 0; conversely, when some active factor has a multiplier > 0
\* the result is not -1 and the loop does not converge in that iteration.
KKTTerminationStep ==
  pc = "TestOptimality" =>
    /\ pc' = "Converged" <=> leaveResult'.ix = -1
    /\ leaveResult'.ix = -1 =>
         \A i \in 1..Len(workingSet') :
           workingSet'[i].active => Multiplier(workingSet', lambdas', i) <= 0
    /\ BadActive(workingSet, lambdas') # {} =>
         leaveResult'.ix # -1 /\ pc' # "Converged"

C4_KKTTermination == [][KKTTerminationStep]_vars

\* The loop converged with two active factors, one of multiplier 0.
C4_Witness ==
  /\ pc = "Converged"
  /\ Len(workingSet) = 2
  /\ workingSet[1].active
  /\ workingSet[2].active
  /\ Multiplier(workingSet, lambdas, 1) = 0
  /\ Multiplier(workingSet, lambdas, 2) < 0

-----------------------------------------------------------------------------
(* C5 *)

\* C5: computeStepSize never returns the index of a factor that is active,
\* and when it returns an index i # -1 the constraint of factor i is tight at
\* the returned point: a_i.(xk + alpha*p) = b_i.
C5_ReturnedFactorInactiveAndTight ==
  (stepResult.called /\ stepResult.ix # -1) =>
    LET factor == workingSet[stepResult.ix + 1]
    IN  /\ ~factor.active
        /\ DotProductRow(factor, Retract(xk, stepResult.alpha, p)) = FromInt(factor.b[1])

\* A call that returned a factor, with a fractional step, while the working
\* set also holds an active factor.
C5_Witness ==
  /\ stepResult.called
  /\ stepResult.ix # -1
  /\ stepResult.alpha.d # 1
  /\ \E i \in 1..Len(workingSet) : workingSet[i].active

-----------------------------------------------------------------------------
(* C6 *)

\* C6: when two or more inactive factors with a.p > 0 reach their bound at
\* the same minimal alpha, below startAlpha, computeStepSize returns the
\* lowest working-set index among them.
C6_TieLowestIndex ==
  LET T == Closest(workingSet, xk, p)
  IN  (/\ stepResult.called
       /\ Cardinality(T) >= 2
       /\ T \subseteq Binding(workingSet, xk, p, startAlpha))
        => stepResult.ix + 1 = SetMin(T)

\* A call on two factors with different rows that tie below startAlpha.
C6_Witness ==
  /\ stepResult.called
  /\ Cardinality(Closest(workingSet, xk, p)) = 2
  /\ Closest(workingSet, xk, p) \subseteq Binding(workingSet, xk, p, startAlpha)
  /\ workingSet[1].A # workingSet[2].A
  /\ stepResult.ix = 0

-----------------------------------------------------------------------------
(* C7 *)

\* C7: computeStepSize returns index -1 exactly when the returned alpha
\* equals startAlpha, and an index # -1 exactly when alpha < startAlpha; on
\* an empty working set, or when no inactive constraint binds before
\* startAlpha, it returns (startAlpha, -1).
C7_IndexIffShorterStep ==
  stepResult.called =>
    /\ stepResult.ix = -1 <=> stepResult.alpha = startAlpha
    /\ stepResult.ix # -1 <=> DLess(stepResult.alpha, startAlpha)
    /\ stepResult.ix \in -1..(Len(workingSet) - 1)
    /\ Binding(workingSet, xk, p, startAlpha) = {}
         => stepResult.ix = -1 /\ stepResult.alpha = startAlpha

\* A call that returned (startAlpha, -1) although an inactive factor reaches
\* its bound exactly at startAlpha.
C7_Witness ==
  /\ stepResult.called
  /\ stepResult.ix = -1
  /\ stepResult.alpha = startAlpha
  /\ \E i \in Candidates(workingSet, p) :
       CandidateAlpha(workingSet, xk, p, i) = startAlpha

-----------------------------------------------------------------------------
(* C8 *)

\* C8, as claimed: in every outer iteration the working set changes by
\* exactly one activation or exactly one deactivation, never both.
ExactlyOneChangeStep ==
  pc \in {"BoundStep", "TestOptimality"} =>
    /\ SameFactors(workingSet, workingSet')
    /\ Cardinality(Activations(workingSet, workingSet')) +
       Cardinality(Deactivations(workingSet, workingSet')) = 1

C8_ExactlyOneChange == [][ExactlyOneChangeStep]_vars

\* C8, amended: an outer iteration changes the working set by exactly one
\* activation (that of the factor computeStepSize returned) when the step is
\* bounded, alpha < 1; by exactly one deactivation (that of the factor
\* identifyLeavingConstraint returned) when some active multiplier is > 0;
\* and not at all when the full step is taken or the loop converges.  Never
\* both, and computing the direction changes nothing.
AtMostOneChangeStep ==
  /\ SameFactors(workingSet, workingSet')
  /\ pc = "ComputeDirection" => workingSet' = workingSet
  /\ pc = "BoundStep" =>
       /\ Deactivations(workingSet, workingSet') = {}
       /\ Activations(workingSet, workingSet') =
            IF DLess(stepResult'.alpha, One) THEN {stepResult'.ix + 1} ELSE {}
  /\ pc = "TestOptimality" =>
       /\ Activations(workingSet, workingSet') = {}
       /\ Deactivations(workingSet, workingSet') =
            IF BadActive(workingSet, lambdas') # {} THEN {leaveResult'.ix + 1} ELSE {}

C8_AtMostOneChange == [][AtMostOneChangeStep]_vars

\* A full step was accepted, in a working set with an inactive factor, after
\* an earlier pass had dropped a factor.
C8_Witness ==
  /\ lastOp = "BoundStep"
  /\ stepResult.ix = -1
  /\ stepResult.alpha = One
  /\ iter >= 2
  /\ \E i \in 1..Len(workingSet) : ~workingSet[i].active

-----------------------------------------------------------------------------
(* C9 *)

\* C9, as claimed: at every accepted iterate each factor satisfies a.x <= b
\* with equality exactly when the factor is active.
C9_TightExactlyWhenActive ==
  lastOp = "BoundStep" =>
    \A i \in 1..Len(workingSet) :
      /\ Feasible(workingSet[i], xk)
      /\ workingSet[i].active <=> Tight(workingSet[i], xk)

\* C9, amended: at every accepted iterate each factor satisfies a.x <= b,
\* and every active factor is tight; an inactive factor may be tight too.
C9_ActiveImpliesTight ==
  \A i \in 1..Len(workingSet) :
    /\ Feasible(workingSet[i], xk)
    /\ workingSet[i].active => Tight(workingSet[i], xk)

\* A bounded step was accepted on which two factors of different rows
\* became tight: the one returned is active, the other one is inactive.
C9_Witness ==
  /\ lastOp = "BoundStep"
  /\ stepResult.ix # -1
  /\ \E i \in 1..Len(workingSet) :
       /\ ~workingSet[i].active
       /\ Tight(workingSet[i], xk)
       /\ ~Tight(workingSet[i], [k \in Keys |-> DSub(xk[k], DMul(stepResult.alpha, p[k]))])
       /\ workingSet[i].A # workingSet[stepResult.ix + 1].A

-----------------------------------------------------------------------------
(* C10 *)

\* C10: computeStepSize and identifyLeavingConstraint are pure queries: a
\* call changes no active flag, nor the order or content of the working set,
\* nor xk, p or lambdas, and a second call on the same inputs returns what
\* the first returned.
QueriesArePureStep ==
  /\ workingSet' = workingSet
  /\ UNCHANGED <<xk, p, startAlpha, lambdas>>
  /\ (stepResult.called /\ stepResult'.called) => stepResult' = stepResult
  /\ (leaveResult.called /\ leaveResult'.called) => leaveResult' = leaveResult

-----------------------------------------------------------------------------
(* C11 *)

\* The constrained keys whose dual factor is not empty.
NonEmptyKeys ==
  {k \in constrainedKeys : ~Empty(createDualFactor(k, workingSet, xk))}

\* C11: buildDualGraph calls createDualFactor exactly once for every key of
\* constrainedKeys, in key order, and returns a graph holding exactly the
\* non-empty results, in that order: no empty dual factor is inserted, no
\* non-empty one is dropped, the graph has at most one factor per
\* constrained key, and it is empty when constrainedKeys is empty.
C11_DualGraphHoldsNonEmptyFactors ==
  dualResult.called =>
    LET calls == dualResult.calls
        graph == dualResult.graph
    IN  /\ Len(calls) = Cardinality(constrainedKeys)
        /\ {calls[n] : n \in 1..Len(calls)} = constrainedKeys
        /\ \A m, n \in 1..Len(calls) : m < n => calls[m] < calls[n]
        /\ Len(graph) = Cardinality(NonEmptyKeys)
        /\ {graph[n] : n \in 1..Len(graph)} =
             {createDualFactor(k, workingSet, xk) : k \in NonEmptyKeys}
        /\ \A m, n \in 1..Len(graph) : m < n => graph[m].key < graph[n].key
        /\ \A n \in 1..Len(graph) : ~Empty(graph[n])
        /\ Len(graph) <= Cardinality(constrainedKeys)
        /\ constrainedKeys = {} => graph = <<>>

\* A call on three constrained keys that returned the dual factor of key 2
\* alone: key 1 has inequality factors, all inactive, and key 3 has none.
C11_Witness ==
  /\ dualResult.called
  /\ constrainedKeys = PrimalKeys
  /\ Len(dualResult.calls) = 3
  /\ Len(dualResult.graph) = 1
  /\ dualResult.graph[1].key = 2
  /\ 1 \in DOMAIN inequalityVariableIndex

-----------------------------------------------------------------------------
(* C12 *)

\* The factor indices the variable index lists for key.
Listed(key) ==
  IF key \in DOMAIN inequalityVariableIndex
  THEN inequalityVariableIndex[key]
  ELSE <<>>

\* Those of them whose factor is active, in the order of the variable index.
ActiveListed(key) ==
  SelectSeq(Listed(key), LAMBDA factorIx : workingSet[factorIx + 1].active)

\* t is the transpose of the matrix m.
IsTransposeOf(t, m) ==
  /\ Len(t) = Len(m[1])
  /\ \A j \in 1..Len(t) :
       /\ Len(t[j]) = Len(m)
       /\ \A i \in 1..Len(m) : t[j][i] = m[i][j]

====
